---- MODULE Spec2Model ----
(***************************************************************************)
(* A model of opennem's stats_factory (opennem/api/stats/controllers.py):  *)
(* the grouping of query rows into null-trimmed series, the series ids,    *)
(* the time zone and truncation of start and last; of the handler          *)
(* energy_station (opennem/api/stats/router.py); of the window             *)
(* TimeSeries.get_range resolves (opennem/schema/dates.py); of             *)
(* date_range_from_week (opennem/api/export/map.py); and of                *)
(* validate_data_outputs (opennem/core/validators/data.py).                *)
(*                                                                         *)
(* Encodings                                                               *)
(*   str            a sequence of one-character strings; "" is <<>>.       *)
(*   Optional[str]  None and "" are both <<>>: stats_factory only ever     *)
(*                  tests these arguments by truthiness.                   *)
(*   Optional[x]    otherwise <<>> for None and <<x>> for a value.         *)
(*   datetime       the wall-clock reading in seconds since 1970-01-01     *)
(*                  00:00:00 and the tzinfo: None, or the UTC offset in    *)
(*                  minutes.  The timestamp of a row is its reading.       *)
(***************************************************************************)
EXTENDS Integers, Sequences, FiniteSets, TLC

(***************************************************************************)
(* Bounds of the model.                                                    *)
(***************************************************************************)
\* the longest list of rows handed to stats_factory in Spec
MaxRows == 3
\* the latest timestamp a row of Spec carries
MaxTs == 2
\* the number of timestamps of the single ordered group of SpecSeries
MaxLen == 7
\* the longest list of rows and the latest timestamp of SpecDup
MaxDupRows == 4
MaxDupTs == 3
\* the longest list of rows of SpecTime
MaxTimeRows == 2
\* the longest list of rows the query of energy_station returns in SpecStation
MaxStationRows == 2

(***************************************************************************)
(* Python str: lower(), startswith(), join().                              *)
(***************************************************************************)
UPPER == << "A", "B", "C", "D", "E", "F", "G", "H", "I", "J", "K", "L", "M",
            "N", "O", "P", "Q", "R", "S", "T", "U", "V", "W", "X", "Y", "Z" >>

LOWER == << "a", "b", "c", "d", "e", "f", "g", "h", "i", "j", "k", "l", "m",
            "n", "o", "p", "q", "r", "s", "t", "u", "v", "w", "x", "y", "z" >>

\* str.lower() on one character
LowerChar(c) ==
    IF \E i \in 1..Len(UPPER) : UPPER[i] = c
    THEN LOWER[CHOOSE i \in 1..Len(UPPER) : UPPER[i] = c]
    ELSE c

\* str.lower()
Lower(s) == [i \in 1..Len(s) |-> LowerChar(s[i])]

\* str.startswith(prefix)
StartsWith(s, prefix) ==
    /\ Len(prefix) <= Len(s)
    /\ SubSeq(s, 1, Len(prefix)) = prefix

\* the truthiness of a str (or of an Optional value)
Truthy(s) == s # <<>>

\* [f for f in parts if f]
RECURSIVE NonEmpty(_)
NonEmpty(parts) ==
    IF parts = <<>> THEN <<>>
    ELSE IF Truthy(Head(parts))
         THEN <<Head(parts)>> \o NonEmpty(Tail(parts))
         ELSE NonEmpty(Tail(parts))

\* ".".join(parts)
RECURSIVE Join(_)
Join(parts) ==
    IF parts = <<>> THEN <<>>
    ELSE IF Len(parts) = 1 THEN Head(parts)
    ELSE Head(parts) \o <<".">> \o Join(Tail(parts))

\* ".".join(f for f in parts if f)
JoinNonEmpty(parts) == Join(NonEmpty(parts))

(***************************************************************************)
(* String literals of the source.                                          *)
(***************************************************************************)
TEMPERATURE == << "t", "e", "m", "p", "e", "r", "a", "t", "u", "r", "e" >>

FUEL_TECH == << "f", "u", "e", "l", "_", "t", "e", "c", "h" >>

(***************************************************************************)
(* Networks (opennem/schema/network.py).  offset is Optional[int].         *)
(***************************************************************************)
NetworkNEM ==
    [ code |-> << "N", "E", "M" >>, country |-> << "a", "u" >>, offset |-> << 600 >> ]

\* a NetworkSchema whose country is written in capitals
NetworkNZ ==
    [ code |-> << "N", "Z" >>, country |-> << "N", "Z" >>, offset |-> << 720 >> ]

\* a NetworkSchema built without the optional offset field
NetworkNoOffset ==
    [ code |-> << "X" >>, country |-> << "A", "U" >>, offset |-> << >> ]

\* a NetworkSchema with a fixed offset of 0 minutes
NetworkUTC ==
    [ code |-> << "U" >>, country |-> << "a", "u" >>, offset |-> << 0 >> ]

\* NetworkSchema.get_timezone: <<"tz", offset>>, or <<"raise">> when the local tz
\* is read before any branch has bound it (no offset, or an offset of 0)
get_timezone(net) ==
    IF net.offset # <<>> /\ net.offset[1] # 0
    THEN << "tz", net.offset[1] >>
    ELSE << "raise" >>

(***************************************************************************)
(* Optional values.                                                        *)
(***************************************************************************)
None == << >>

Some(x) == << x >>

\* Python truthiness of an Optional[number]: None and 0 are falsy
TruthyNumber(v) == v # None /\ v[1] # 0

(***************************************************************************)
(* The calendar of datetime.  A date is counted in days, a time in seconds *)
(* of the wall clock since 1970-01-01 00:00:00.                            *)
(***************************************************************************)
SecondsPerMinute == 60

SecondsPerHour == 3600

SecondsPerDay == 86400

\* the first year of the time axis and the last one it is read back for
EpochYear == 1970

LastYear == 2030

IsLeap(year) == year % 4 = 0 /\ (year % 100 # 0 \/ year % 400 = 0)

DaysInMonth(year, month) ==
    IF month = 2 THEN (IF IsLeap(year) THEN 29 ELSE 28)
    ELSE IF month \in { 4, 6, 9, 11 } THEN 30
    ELSE 31

\* the days of the years before year, counted from year 1
DaysBeforeYear(year) ==
    LET y == year - 1
    IN  y * 365 + y \div 4 - y \div 100 + y \div 400

RECURSIVE DaysBeforeMonth(_, _)
DaysBeforeMonth(year, month) ==
    IF month = 1 THEN 0
    ELSE DaysBeforeMonth(year, month - 1) + DaysInMonth(year, month - 1)

\* the day number of a date, 1970-01-01 being day 0
Days(year, month, day) ==
    DaysBeforeYear(year) + DaysBeforeMonth(year, month) + (day - 1)
        - DaysBeforeYear(EpochYear)

\* the wall-clock reading year-month-day hour:minute:second
Wall(year, month, day, hour, minute, second) ==
    Days(year, month, day) * SecondsPerDay
        + hour * SecondsPerHour + minute * SecondsPerMinute + second

\* the date of a wall-clock reading
YearOf(wall) ==
    CHOOSE y \in EpochYear..LastYear :
        /\ Days(y, 1, 1) * SecondsPerDay <= wall
        /\ wall < Days(y + 1, 1, 1) * SecondsPerDay

MonthOf(wall) ==
    LET y == YearOf(wall)
    IN  CHOOSE m \in 1..12 :
            /\ Days(y, m, 1) * SecondsPerDay <= wall
            /\ wall < (Days(y, m, 1) + DaysInMonth(y, m)) * SecondsPerDay

DayOf(wall) == wall \div SecondsPerDay - Days(YearOf(wall), MonthOf(wall), 1) + 1

SecondOfDay(wall) == wall % SecondsPerDay

(***************************************************************************)
(* datetime: the wall-clock reading and the tzinfo, None for a naive       *)
(* value and the UTC offset in minutes for an aware one.                   *)
(***************************************************************************)
DateTime(wall, tz) == [ wall |-> wall, tz |-> tz ]

\* the instant an aware datetime denotes: its reading on the UTC wall clock
Instant(dt) == dt.wall - dt.tz[1] * SecondsPerMinute

\* opennem.utils.timezone.is_aware
is_aware(dt) == dt.tz # None

\* opennem.utils.timezone.make_aware: the reading is kept, the zone attached
make_aware(dt, offset) == [ dt EXCEPT !.tz = Some(offset) ]

\* datetime.astimezone of an aware value with a new offset where the code
\* keeps the reading
AstimezoneKeepsWall(dt, offset) == [ dt EXCEPT !.tz = Some(offset) ]

\* datetime.astimezone of an aware value: the same instant read at offset
astimezone(dt, offset) ==
    DateTime(Instant(dt) + offset * SecondsPerMinute, Some(offset))

\* datetime.replace(tzinfo=...)
replace_tzinfo(dt, offset) == [ dt EXCEPT !.tz = Some(offset) ]

\* date_trunc with the day and the month truncation exchanged
date_trunc_exchanged(dt, truncate_to) ==
    IF truncate_to = "month"
    THEN [ dt EXCEPT !.wall = dt.wall - SecondOfDay(dt.wall) ]
    ELSE [ dt EXCEPT !.wall = Days(YearOf(dt.wall), MonthOf(dt.wall), 1) * SecondsPerDay ]

\* datetime_truncate.truncate to "day" or "month": the tzinfo is kept
date_trunc(dt, truncate_to) ==
    IF truncate_to = "day"
    THEN [ dt EXCEPT !.wall = dt.wall - SecondOfDay(dt.wall) ]
    ELSE [ dt EXCEPT !.wall = Days(YearOf(dt.wall), MonthOf(dt.wall), 1) * SecondsPerDay ]

\* opennem.api.time.human_to_interval: the interval of the catalog for a token
human_to_interval(interval_human) == [ interval_human |-> interval_human ]

(***************************************************************************)
(* The state: the arguments of one call of stats_factory, the position in  *)
(* it, and its locals and result.                                          *)
(***************************************************************************)
VARIABLES
    stats,          \* List[DataQueryResult]: [interval, result, group_by]
    units,          \* UnitDefinition: [name, name_alias, unit_type, cast_nulls]
    network,        \* Optional[NetworkSchema]
    opts,           \* the remaining keyword arguments
    pc,             \* "call", "loop", "returned", "raised"
    group_codes,    \* the group codes the loop has not visited yet
    stats_grouped,  \* the series built so far
    result,         \* the return value: None or Some(OpennemDataSet)
    energy_station, \* the handler energy_station: its position, row and stats
    time_series,    \* the TimeSeries a range is asked of, and the time it is asked
    date_range,     \* what TimeSeries.get_range returned
    export,         \* the year and week of a StatExport and its date_range
    validation      \* the arguments of validate_data_outputs and its outcome

vars == << stats, units, network, opts, pc, group_codes, stats_grouped, result,
           energy_station, time_series, date_range, export, validation >>

args == << stats, units, network, opts >>

\* the state outside of a call of stats_factory
outside == << energy_station, time_series, date_range, export, validation >>

(***************************************************************************)
(* stats_factory, lines 62-110: grouping, null handling, start and end.    *)
(***************************************************************************)
\* set([i.group_by for i in stats if i.group_by])
GroupCodes(rows) ==
    { rows[i].group_by : i \in { j \in 1..Len(rows) : Truthy(rows[j].group_by) } }

\* a faulty variant of DataGrouped: the guard "if stat.result:" that line 77
\* comments out is in force, so a null or 0 does not overwrite an earlier value
RECURSIVE DataGroupedGuarded(_, _, _)
DataGroupedGuarded(rows, group_code, n) ==
    IF n = 0 THEN << >>
    ELSE LET prev == DataGroupedGuarded(rows, group_code, n - 1)
             stat == rows[n]
         IN  IF stat.group_by # group_code
             THEN prev
             ELSE [ t \in (DOMAIN prev) \cup { stat.interval } |->
                        IF t = stat.interval /\ TruthyNumber(stat.result)
                        THEN stat.result
                        ELSE IF t \in DOMAIN prev THEN prev[t] ELSE None ]

\* the loop over stats of lines 70-78: data_grouped after the rows 1..n, as a
\* function from the timestamps seen to the value stored last
RECURSIVE DataGrouped(_, _, _)
DataGrouped(rows, group_code, n) ==
    IF n = 0 THEN << >>
    ELSE LET prev == DataGrouped(rows, group_code, n - 1)
             stat == rows[n]
         IN  IF stat.group_by # group_code
             THEN prev
             ELSE [ t \in (DOMAIN prev) \cup { stat.interval } |->
                        IF t = stat.interval THEN stat.result ELSE prev[t] ]

\* the smallest element of a non-empty set of timestamps
Min(S) == CHOOSE x \in S : \A y \in S : x <= y

Max(S) == CHOOSE x \in S : \A y \in S : x >= y

\* sorted(S) as a sequence
RECURSIVE SortedSeq(_)
SortedSeq(S) ==
    IF S = {} THEN << >>
    ELSE << Min(S) >> \o SortedSeq(S \ { Min(S) })

\* OrderedDict(sorted(data_grouped.items())): the keys in ascending order
DataSortedKeys(data_grouped) == SortedSeq(DOMAIN data_grouped)

\* list(data_sorted.values())
DataValue(data_grouped) ==
    LET keys == DataSortedKeys(data_grouped)
    IN  [ i \in 1..Len(keys) |-> data_grouped[keys[i]] ]

\* line 85: len([i for i in data_value if i]) == 0
IsNullSeries(data_value) ==
    \A i \in 1..Len(data_value) : ~ TruthyNumber(data_value[i])

\* a faulty variant of CastApplies: the unit's own cast_nulls flag is ignored
CastAppliesIgnoringUnitFlag(u, cast_nulls) ==
    ~ StartsWith(u.name, TEMPERATURE) /\ cast_nulls = TRUE

\* line 94: the condition under which trailing nulls are cast
CastApplies(u, cast_nulls) ==
    (~ StartsWith(u.name, TEMPERATURE) \/ u.cast_nulls = TRUE) /\ cast_nulls = TRUE

\* opennem.utils.numbers.cast_trailing_nulls: the nulls at the end of the list
\* take the last value that is not null
cast_trailing_nulls(series) ==
    LET known == { i \in 1..Len(series) : series[i] # None }
    IN  IF known = {} THEN series
        ELSE [ i \in 1..Len(series) |->
                 IF i > Max(known) THEN series[Max(known)] ELSE series[i] ]

\* opennem.utils.numbers.trim_nulls on the (key, value) pairs of a dict: the
\* entries before the first and after the last value that is not null go
trim_nulls(pairs) ==
    LET known == { i \in 1..Len(pairs) : pairs[i][2] # None }
    IN  IF known = {} THEN << >>
        ELSE SubSeq(pairs, Min(known), Max(known))

\* a faulty variant of DataTrimmed: line 101, the call of trim_nulls, is left out
DataTrimmedNoTrim(rows, group_code, u, cast_nulls) ==
    LET data_grouped == DataGrouped(rows, group_code, Len(rows))
        keys         == DataSortedKeys(data_grouped)
        data_value   == IF CastApplies(u, cast_nulls)
                        THEN cast_trailing_nulls(DataValue(data_grouped))
                        ELSE DataValue(data_grouped)
    IN  [ i \in 1..Len(keys) |-> << keys[i], data_value[i] >> ]

\* a faulty variant of DataTrimmed: line 97, the call of cast_trailing_nulls, is
\* left out
DataTrimmedNoCast(rows, group_code, u, cast_nulls) ==
    LET data_grouped == DataGrouped(rows, group_code, Len(rows))
        keys         == DataSortedKeys(data_grouped)
        data_value   == DataValue(data_grouped)
    IN  trim_nulls([ i \in 1..Len(keys) |-> << keys[i], data_value[i] >> ])

\* lines 93-101: data_trimmed as a sequence of (timestamp, value) pairs
DataTrimmed(rows, group_code, u, cast_nulls) ==
    LET data_grouped == DataGrouped(rows, group_code, Len(rows))
        keys         == DataSortedKeys(data_grouped)
        data_value   == IF CastApplies(u, cast_nulls)
                        THEN cast_trailing_nulls(DataValue(data_grouped))
                        ELSE DataValue(data_grouped)
    IN  trim_nulls([ i \in 1..Len(keys) |-> << keys[i], data_value[i] >> ])

\* lines 104-110: the dates of the trimmed series, its start and its end, and
\* the values line 151 passes on
History(data_trimmed) ==
    LET dates == { data_trimmed[i][1] : i \in 1..Len(data_trimmed) }
    IN  [ start |-> Min(dates),
          last  |-> Max(dates),
          data  |-> [ i \in 1..Len(data_trimmed) |-> data_trimmed[i][2] ] ]

(***************************************************************************)
(* stats_factory, lines 59-60 and 112-152: the time zone of start and end, *)
(* their truncation, and the history of the series.                        *)
(***************************************************************************)
\* lines 59-60: the timezone argument, replaced by the network's when there is
\* a network (whose get_timezone has returned)
Timezone(net, o) ==
    IF net # None THEN Some(get_timezone(net[1])[2]) ELSE o.timezone

\* NetworkSchema.get_fixed_offset, for a network with an offset
get_fixed_offset(net) == net.offset[1]

\* lines 113-131 for one of start and end
Localized(net, o, dt) ==
    LET timezone == Timezone(net, o)
        aware    == IF o.localize /\ timezone # None /\ ~ is_aware(dt)
                    THEN make_aware(dt, timezone[1])
                    ELSE dt
        shifted  == IF o.localize /\ timezone # None /\ net # None
                       /\ TruthyNumber(net[1].offset)
                    THEN astimezone(aware, net[1].offset[1])
                    ELSE aware
    IN  IF net # None /\ timezone # None /\ ~ is_aware(shifted)
        THEN replace_tzinfo(shifted, get_fixed_offset(net[1]))
        ELSE shifted

\* lines 136-142 for one of start and end
Truncated(o, dt) ==
    LET day == IF o.interval = human_to_interval("1d")
               THEN date_trunc(dt, "day")
               ELSE dt
    IN  IF o.interval = human_to_interval("1M")
        THEN date_trunc(day, "month")
        ELSE day

\* lines 147-152: the OpennemDataHistory of the series.  The timestamps of
\* the rows are wall-clock readings that all carry the tzinfo o.tzinfo.
OpennemDataHistory(net, o, data_trimmed) ==
    LET h == History(data_trimmed)
    IN  [ start    |-> Truncated(o, Localized(net, o, DateTime(h.start, o.tzinfo))),
          last     |-> Truncated(o, Localized(net, o, DateTime(h.last, o.tzinfo))),
          interval |-> o.interval.interval_human,
          data     |-> h.data ]

(***************************************************************************)
(* stats_factory, lines 162-244: the metadata and the id of a series.      *)
(***************************************************************************)
\* network.code.lower() where the code reads it without testing network:
\* only evaluated when network is not None
NetworkCodeLower(net) == Lower(net[1].code)

\* region.lower() if region and region.lower() != network.code.lower() else None
RegionComponent(net, region) ==
    IF Truthy(region) /\ Lower(region) # NetworkCodeLower(net)
    THEN Lower(region)
    ELSE None

\* a faulty variant of FueltechId: the group code is left out
FueltechIdWithoutGroupCode(net, region, group_code, u) ==
    JoinNonEmpty(<< IF net # None THEN net[1].country ELSE None,
                    IF net # None THEN NetworkCodeLower(net) ELSE None,
                    RegionComponent(net, region),
                    FUEL_TECH,
                    u.unit_type >>)

\* lines 173-184: the id of the fueltech_group branch
FueltechId(net, region, group_code, u) ==
    JoinNonEmpty(<< IF net # None THEN net[1].country ELSE None,
                    IF net # None THEN NetworkCodeLower(net) ELSE None,
                    RegionComponent(net, region),
                    FUEL_TECH,
                    group_code,
                    u.unit_type >>)

\* a faulty variant of GroupFieldId: the group code is appended whatever
\* include_group_code says, and the name of the group field is not
GroupFieldIdAlwaysGroupCode(net, region, group_code, u, group_field, include_group_code) ==
    JoinNonEmpty(
        (IF net # None THEN << Lower(net[1].country), NetworkCodeLower(net) >> ELSE << >>)
        \o (IF Truthy(region) /\ Lower(region) # NetworkCodeLower(net)
            THEN << Lower(region) >> ELSE << >>)
        \o (IF Truthy(u.name_alias) THEN << u.name_alias >>
            ELSE IF Truthy(u.unit_type) THEN << u.unit_type >> ELSE << >>)
        \o << group_code >>)

\* lines 189-211: the id of the group_field branch
GroupFieldId(net, region, group_code, u, group_field, include_group_code) ==
    JoinNonEmpty(
        (IF net # None THEN << Lower(net[1].country), NetworkCodeLower(net) >> ELSE << >>)
        \o (IF Truthy(region) /\ Lower(region) # NetworkCodeLower(net)
            THEN << Lower(region) >> ELSE << >>)
        \o (IF Truthy(u.name_alias) THEN << u.name_alias >>
            ELSE IF Truthy(u.unit_type) THEN << u.unit_type >> ELSE << >>)
        \o (IF Truthy(group_code) /\ include_group_code
            THEN << group_code, group_field >> ELSE << >>))

\* a faulty variant of DefaultId: the group code is not lower-cased
DefaultIdGroupCodeAsIs(net, region, group_code, u) ==
    JoinNonEmpty(
        (IF net # None THEN << NetworkCodeLower(net) >> ELSE << >>)
        \o (IF Truthy(region) /\ Lower(region) # NetworkCodeLower(net)
            THEN << Lower(region) >> ELSE << >>)
        \o (IF Truthy(group_code) THEN << group_code >> ELSE << >>)
        \o (IF Truthy(u.name_alias) THEN << u.name_alias >>
            ELSE IF Truthy(u.name) THEN << u.name >> ELSE << >>))

\* lines 218-238: the id built when data.id is still empty
DefaultId(net, region, group_code, u) ==
    JoinNonEmpty(
        (IF net # None THEN << NetworkCodeLower(net) >> ELSE << >>)
        \o (IF Truthy(region) /\ Lower(region) # NetworkCodeLower(net)
            THEN << Lower(region) >> ELSE << >>)
        \o (IF Truthy(group_code) THEN << Lower(group_code) >> ELSE << >>)
        \o (IF Truthy(u.name_alias) THEN << u.name_alias >>
            ELSE IF Truthy(u.name) THEN << u.name >> ELSE << >>))

\* a faulty variant of IdBeforeDefault: the group_field branch runs before the
\* fueltech_group branch, so the fuel-tech id overwrites the group-field id
IdBeforeDefaultFueltechLast(net, o, group_code, u) ==
    LET id_group_field == IF Truthy(o.group_field)
                          THEN GroupFieldId(net, o.region, group_code, u,
                                            o.group_field, o.include_group_code)
                          ELSE None
        id_fueltech    == IF o.fueltech_group
                          THEN FueltechId(net, o.region, group_code, u)
                          ELSE id_group_field
    IN  IF Truthy(o.data_id) THEN o.data_id ELSE id_fueltech

\* lines 170-215: data.id is assigned by each branch that runs, in the order
\* fueltech_group, group_field, data_id, a later branch overwriting an earlier
IdBeforeDefault(net, o, group_code, u) ==
    LET id_fueltech    == IF o.fueltech_group
                          THEN FueltechId(net, o.region, group_code, u)
                          ELSE None
        id_group_field == IF Truthy(o.group_field)
                          THEN GroupFieldId(net, o.region, group_code, u,
                                            o.group_field, o.include_group_code)
                          ELSE id_fueltech
    IN  IF Truthy(o.data_id) THEN o.data_id ELSE id_group_field

\* lines 217-239: data.id once the default has filled an empty id
SeriesId(net, o, group_code, u) ==
    IF ~ Truthy(IdBeforeDefault(net, o, group_code, u))
    THEN DefaultId(net, o.region, group_code, u)
    ELSE IdBeforeDefault(net, o, group_code, u)

\* lines 178, 198, 227: network.code is read with network None (AttributeError)
\* whenever a region is given and one of the three id branches runs
IdRaises(net, o) ==
    /\ Truthy(o.region)
    /\ net = None
    /\ \/ o.fueltech_group
       \/ Truthy(o.group_field)
       \/ ~ Truthy(o.data_id)

\* lines 154-242: the OpennemData of one group
Series(net, o, group_code, u, data_trimmed) ==
    [ id        |-> SeriesId(net, o, group_code, u),
      type      |-> IF o.fueltech_group \/ Truthy(o.group_field)
                       \/ ~ Truthy(IdBeforeDefault(net, o, group_code, u))
                    THEN u.unit_type ELSE None,
      data_type |-> u.unit_type,
      code      |-> IF o.include_code THEN group_code ELSE None,
      network   |-> IF net # None THEN NetworkCodeLower(net) ELSE None,
      fuel_tech |-> IF o.fueltech_group THEN group_code ELSE None,
      region    |-> o.region,
      history   |-> OpennemDataHistory(net, o, data_trimmed) ]

\* the code of the set where the network code is assigned after the region
SetCodeNetworkLast(net, o) ==
    IF Truthy(o.code) THEN o.code
    ELSE IF net # None THEN net[1].code
    ELSE IF Truthy(o.region) THEN o.region
    ELSE None

\* lines 253-258: the code of the set
SetCode(net, o) ==
    IF Truthy(o.code) THEN o.code
    ELSE IF Truthy(o.region) THEN o.region
    ELSE IF net # None THEN net[1].code
    ELSE None

\* lines 260-274: the OpennemDataSet
StatSet(net, o, u, series) ==
    [ type    |-> u.unit_type,
      data    |-> series,
      code    |-> IF o.include_code THEN SetCode(net, o) ELSE None,
      network |-> IF net # None THEN net[1].code ELSE None,
      region  |-> o.region ]

(***************************************************************************)
(* The steps of one call.                                                  *)
(***************************************************************************)
\* lines 59-64: the timezone lookup and the set of group codes
Call ==
    /\ pc = "call"
    /\ IF network # None /\ get_timezone(network[1]) = << "raise" >>
       THEN /\ pc' = "raised"
            /\ UNCHANGED group_codes
       ELSE /\ pc' = "loop"
            /\ group_codes' = GroupCodes(stats)
    /\ UNCHANGED << args, stats_grouped, result, outside >>

\* lines 66-244: one iteration of the loop; the set is iterated in no fixed order
Group(group_code) ==
    /\ pc = "loop"
    /\ group_code \in group_codes
    /\ group_codes' = group_codes \ { group_code }
    /\ LET data_grouped == DataGrouped(stats, group_code, Len(stats))
           data_trimmed == DataTrimmed(stats, group_code, units, opts.cast_nulls)
       IN  IF IsNullSeries(DataValue(data_grouped))
           THEN UNCHANGED << pc, stats_grouped, result >>
           ELSE IF data_trimmed = << >>
           THEN /\ pc' = "returned"
                /\ result' = None
                /\ UNCHANGED stats_grouped
           ELSE IF IdRaises(network, opts)
           THEN /\ pc' = "raised"
                /\ UNCHANGED << stats_grouped, result >>
           ELSE /\ stats_grouped' =
                       Append(stats_grouped,
                              Series(network, opts, group_code, units, data_trimmed))
                /\ UNCHANGED << pc, result >>
    /\ UNCHANGED << args, outside >>

\* lines 246-276: the set is built from whatever the loop collected
Return ==
    /\ pc = "loop"
    /\ group_codes = {}
    /\ pc' = "returned"
    /\ result' = Some(StatSet(network, opts, units, stats_grouped))
    /\ UNCHANGED << args, group_codes, stats_grouped, outside >>

Next ==
    \/ Call
    \/ \E g \in group_codes : Group(g)
    \/ Return

(***************************************************************************)
(* The inputs.                                                             *)
(***************************************************************************)
\* group codes: a fuel tech, a region-like code with capitals, and no code
WIND == << "w" >>

SA1 == << "S", "1" >>

\* a group code that differs from WIND in the case of its letter only
WIND_UPPER == << "W" >>

\* regions: one of another name, and the network's own code in lower case
NSW1 == << "N", "1" >>

NEM_LOWER == << "n", "e", "m" >>

\* a unit type, a unit name and a unit alias
POWER == << "p", "o", "w", "e", "r" >>

POWER_MEGA == POWER \o << "_", "m", "e", "g", "a" >>

PRICE == << "p", "r", "i", "c", "e" >>

\* a data_id and a group_field
DATA_ID == << "i", "d" >>

FLOW == << "f", "l", "o", "w" >>

Row(interval, res, group_by) ==
    [ interval |-> interval, result |-> res, group_by |-> group_by ]

TEMPERATURE_MAX == TEMPERATURE \o << "_", "m", "a", "x" >>

Unit(name, name_alias, unit_type, cast_nulls) ==
    [ name |-> name, name_alias |-> name_alias, unit_type |-> unit_type,
      cast_nulls |-> cast_nulls ]

\* the rows of one list: every order, duplicate timestamps included
RowLists(timestamps, results, groups, maxlen) ==
    UNION { [ 1..n -> [ interval : timestamps, result : results, group_by : groups ] ]
            : n \in 0..maxlen }

DefaultOpts ==
    [ region |-> None, code |-> None, data_id |-> None, group_field |-> None,
      include_group_code |-> FALSE, fueltech_group |-> FALSE,
      include_code |-> TRUE, cast_nulls |-> TRUE,
      localize |-> TRUE, interval |-> human_to_interval("5m"),
      timezone |-> None, tzinfo |-> None ]

\* no handler and no TimeSeries around the call
NoHandler == [ pc |-> "none", row |-> << >>, stats |-> None ]

InitOutside ==
    /\ energy_station = NoHandler
    /\ time_series = None
    /\ date_range = None
    /\ export = None
    /\ validation = None

InitLocals ==
    /\ pc = "call"
    /\ group_codes = {}
    /\ stats_grouped = << >>
    /\ result = None
    /\ InitOutside

\* short lists of rows of two groups, in every order
Init ==
    /\ stats \in RowLists(1..MaxTs, { None, Some(0), Some(5) }, { WIND, SA1 }, MaxRows)
    /\ units = Unit(POWER_MEGA, None, POWER, FALSE)
    /\ network = Some(NetworkNEM)
    /\ opts \in { [ DefaultOpts EXCEPT !.cast_nulls = c ] : c \in BOOLEAN }
    /\ InitLocals

Spec == Init /\ [][Next]_vars

\* one group with one row per timestamp 1..n, as a query ordered by time returns
\* it, under every unit and cast_nulls setting
InitSeries ==
    /\ \E n \in 1..MaxLen :
         \E values \in [ 1..n -> { None, Some(5), Some(7) } ] :
            stats = [ i \in 1..n |->
                        [ interval |-> i, result |-> values[i], group_by |-> WIND ] ]
    /\ units \in { Unit(name, None, POWER, c) :
                     name \in { POWER_MEGA, TEMPERATURE_MAX }, c \in BOOLEAN }
    /\ network = Some(NetworkNEM)
    /\ opts \in { [ DefaultOpts EXCEPT !.cast_nulls = c ] : c \in BOOLEAN }
    /\ InitLocals

SpecSeries == InitSeries /\ [][Next]_vars

\* the rows of one group in every order, timestamps repeated
InitDup ==
    /\ stats \in RowLists(1..MaxDupTs, { None, Some(5) }, { WIND }, MaxDupRows)
    /\ units = Unit(POWER_MEGA, None, POWER, FALSE)
    /\ network = Some(NetworkNEM)
    /\ opts \in { [ DefaultOpts EXCEPT !.cast_nulls = c ] : c \in BOOLEAN }
    /\ InitLocals

SpecDup == InitDup /\ [][Next]_vars

\* one row per group, under every combination of the arguments the id is built from
InitId ==
    /\ stats \in { << Row(1, Some(5), WIND) >>,
                   << Row(1, Some(5), SA1) >>,
                   << Row(1, Some(5), WIND), Row(1, Some(7), SA1) >>,
                   << Row(1, Some(5), WIND), Row(1, Some(7), WIND_UPPER) >> }
    /\ units \in { Unit(POWER_MEGA, None, POWER, FALSE),
                   Unit(POWER_MEGA, PRICE, POWER, FALSE),
                   Unit(POWER_MEGA, None, None, FALSE) }
    /\ network \in { None, Some(NetworkNEM), Some(NetworkNZ), Some(NetworkNoOffset) }
    /\ opts \in [ region : { None, NSW1, NEM_LOWER },
                  code : { None },
                  data_id : { None, DATA_ID },
                  group_field : { None, FLOW },
                  include_group_code : BOOLEAN,
                  fueltech_group : BOOLEAN,
                  include_code : BOOLEAN,
                  cast_nulls : { TRUE },
                  localize : { TRUE },
                  interval : { human_to_interval("5m") },
                  timezone : { None },
                  tzinfo : { None } ]
    /\ InitLocals

SpecId == InitId /\ [][Next]_vars

\* sample timestamps next to the end of a day and of a month
SampleTimes ==
    { Wall(2021, 1, 31, 23, 55, 0), Wall(2021, 2, 1, 0, 0, 0),
      Wall(2021, 2, 14, 9, 55, 0), Wall(2021, 2, 28, 14, 5, 0) }

\* the tzinfo of the rows of a query: naive, UTC, +10:00 and +11:00
SampleTzinfo == { None, Some(0), Some(600), Some(660) }

\* one group of rows that are naive or aware, under every network, interval
\* and localize setting
InitTime ==
    /\ stats \in RowLists(SampleTimes, { Some(5) }, { WIND }, MaxTimeRows) \ { << >> }
    /\ units = Unit(POWER_MEGA, None, POWER, FALSE)
    /\ network \in { None, Some(NetworkNEM), Some(NetworkNZ), Some(NetworkNoOffset),
                     Some(NetworkUTC) }
    /\ opts \in { [ DefaultOpts EXCEPT !.localize = l, !.interval = human_to_interval(i),
                                       !.timezone = z, !.tzinfo = t ] :
                     l \in BOOLEAN, i \in { "5m", "1d", "1M" },
                     z \in { None, Some(600) }, t \in SampleTzinfo }
    /\ InitLocals

SpecTime == InitTime /\ [][Next]_vars

\* a station code, as energy_station passes it for code
STATION_CODE == << "S", "T", "N" >>

\* one row per group, under every combination of the context the metadata of
\* the set and of the series is taken from
InitMeta ==
    /\ stats \in { << Row(1, Some(5), WIND) >>,
                   << Row(1, Some(5), SA1) >>,
                   << Row(1, Some(5), WIND), Row(1, Some(7), SA1) >> }
    /\ units = Unit(POWER_MEGA, None, POWER, FALSE)
    /\ network \in { None, Some(NetworkNEM) }
    /\ opts \in { [ DefaultOpts EXCEPT !.region = r, !.code = c, !.data_id = d,
                                       !.include_code = i ] :
                     r \in { None, NSW1 }, c \in { None, STATION_CODE },
                     d \in { None, DATA_ID }, i \in BOOLEAN }
    /\ InitLocals

SpecMeta == InitMeta /\ [][Next]_vars

\* the most rows of a list with rows that have no group
MaxUngroupedRows == 3

\* one row per timestamp, as a query ordered by time returns them, each of the
\* group WIND or of none (group_by is None or ""), as power_station builds
\* them when the query has no group column
InitUngrouped ==
    /\ \E n \in 0..MaxUngroupedRows :
          stats \in { [ i \in 1..n |-> Row(i, results[i], groups[i]) ] :
                        results \in [ 1..n -> { None, Some(5) } ],
                        groups \in [ 1..n -> { None, WIND } ] }
    /\ units = Unit(POWER_MEGA, None, POWER, FALSE)
    /\ network = Some(NetworkNEM)
    /\ opts = DefaultOpts
    /\ InitLocals

SpecUngrouped == InitUngrouped /\ [][Next]_vars

(***************************************************************************)
(* energy_station (opennem/api/stats/router.py, lines 229-299): three      *)
(* calls of stats_factory on the columns of one query, appended to one set.*)
(***************************************************************************)
ENERGY == << "e", "n", "e", "r", "g", "y" >>

MARKET_VALUE == << "m", "a", "r", "k", "e", "t", "_", "v", "a", "l", "u", "e" >>

EMISSIONS == << "e", "m", "i", "s", "s", "i", "o", "n", "s" >>

\* lines 237-250: the DataQueryResult list of one column of the rows
Results(row, column) ==
    [ i \in 1..Len(row) |-> Row(row[i].interval, row[i][column], row[i].group_by) ]

\* OpennemDataSet.append_set: the series of the other set are added at the end
append_set(self, other) ==
    IF other = None THEN self
    ELSE [ self EXCEPT !.data = @ \o other[1].data ]

\* the three calls with the emissions asked for before the market value
StationCallEmissionsSecond(call) ==
    IF call = "energy"
    THEN [ column |-> "energy", units |-> Unit(ENERGY, None, ENERGY, FALSE),
           code |-> STATION_CODE, include_group_code |-> TRUE ]
    ELSE IF call = "market_value"
    THEN [ column |-> "emissions", units |-> Unit(EMISSIONS, None, EMISSIONS, FALSE),
           code |-> Lower(network[1].code), include_group_code |-> FALSE ]
    ELSE [ column |-> "market_value",
           units |-> Unit(MARKET_VALUE, None, MARKET_VALUE, FALSE),
           code |-> STATION_CODE, include_group_code |-> TRUE ]

\* lines 260-268, 276-284 and 288-295: what the three calls are given
StationCall(call) ==
    IF call = "energy"
    THEN [ column |-> "energy", units |-> Unit(ENERGY, None, ENERGY, FALSE),
           code |-> STATION_CODE, include_group_code |-> TRUE ]
    ELSE IF call = "market_value"
    THEN [ column |-> "market_value",
           units |-> Unit(MARKET_VALUE, None, MARKET_VALUE, FALSE),
           code |-> STATION_CODE, include_group_code |-> TRUE ]
    ELSE [ column |-> "emissions", units |-> Unit(EMISSIONS, None, EMISSIONS, FALSE),
           code |-> Lower(network[1].code), include_group_code |-> FALSE ]

\* the handler enters stats_factory with the arguments of one of its calls
Enter(call) ==
    LET c == StationCall(call)
    IN  /\ stats' = Results(energy_station.row, c.column)
        /\ units' = c.units
        /\ opts' = [ DefaultOpts EXCEPT !.code = c.code,
                                        !.include_group_code = c.include_group_code ]
        /\ pc' = "call"
        /\ group_codes' = {}
        /\ stats_grouped' = << >>
        /\ result' = None
        /\ UNCHANGED network

\* the handler stops, with a response or an exception
Leave(how) ==
    /\ energy_station' = [ energy_station EXCEPT !.pc = how ]
    /\ UNCHANGED << args, pc, group_codes, stats_grouped, result >>

\* lines 229-268: no rows is a 404, else the energy is asked of stats_factory
EnergyStationQuery ==
    /\ energy_station.pc = "query"
    /\ IF Len(energy_station.row) < 1
       THEN Leave("404")
       ELSE /\ energy_station' = [ energy_station EXCEPT !.pc = "energy" ]
            /\ Enter("energy")
    /\ UNCHANGED << time_series, date_range, export, validation >>

\* lines 270-284: no set is a 404, else the market value is asked for
EnergyStationEnergy ==
    /\ energy_station.pc = "energy"
    /\ pc \in { "returned", "raised" }
    /\ IF pc = "raised" THEN Leave("raised")
       ELSE IF result = None THEN Leave("404")
       ELSE /\ energy_station' =
                   [ energy_station EXCEPT !.pc = "market_value", !.stats = result ]
            /\ Enter("market_value")
    /\ UNCHANGED << time_series, date_range, export, validation >>

\* lines 286-295: the market value set is appended, the emissions are asked for
EnergyStationMarketValue ==
    /\ energy_station.pc = "market_value"
    /\ pc \in { "returned", "raised" }
    /\ IF pc = "raised" THEN Leave("raised")
       ELSE /\ energy_station' =
                   [ energy_station EXCEPT
                       !.pc = "emissions",
                       !.stats = Some(append_set(energy_station.stats[1], result)) ]
            /\ Enter("emissions")
    /\ UNCHANGED << time_series, date_range, export, validation >>

\* lines 297-299: the emissions set is appended and the set returned
EnergyStationEmissions ==
    /\ energy_station.pc = "emissions"
    /\ pc \in { "returned", "raised" }
    /\ IF pc = "raised" THEN Leave("raised")
       ELSE /\ energy_station' =
                   [ energy_station EXCEPT
                       !.pc = "published",
                       !.stats = Some(append_set(energy_station.stats[1], result)) ]
            /\ UNCHANGED << args, pc, group_codes, stats_grouped, result >>
    /\ UNCHANGED << time_series, date_range, export, validation >>

NextStation ==
    \/ EnergyStationQuery
    \/ Call
    \/ \E g \in group_codes : Group(g)
    \/ Return
    \/ EnergyStationEnergy
    \/ EnergyStationMarketValue
    \/ EnergyStationEmissions

\* the rows of the query: one per interval, of one of two facilities, with the
\* energy, the market value and the emissions known or not
StationRows ==
    UNION { { row \in [ 1..n -> [ interval : 1..n, group_by : { WIND, SA1 },
                                  energy : { None, Some(5) },
                                  market_value : { None, Some(5) },
                                  emissions : { None, Some(5) } ] ] :
                \A i \in 1..n : row[i].interval = i }
            : n \in 0..MaxStationRows }

InitStation ==
    /\ energy_station \in { [ pc |-> "query", row |-> row, stats |-> None ] :
                               row \in StationRows }
    /\ network = Some(NetworkNEM)
    /\ stats = << >>
    /\ units = Unit(ENERGY, None, ENERGY, FALSE)
    /\ opts = DefaultOpts
    /\ pc = "none"
    /\ group_codes = {}
    /\ stats_grouped = << >>
    /\ result = None
    /\ time_series = None
    /\ date_range = None
    /\ export = None
    /\ validation = None

SpecStation == InitStation /\ [][NextStation]_vars

(***************************************************************************)
(* TimeSeries.get_range (opennem/schema/dates.py), the resolver of the     *)
(* window of a query, after spec 4.2 and tests/test_schema_timeseries.py.  *)
(* A TimeSeries is [start, end, network, interval, period, year,           *)
(* forecast]; end is the nominal end of the range, which is the reading of *)
(* the clock when the caller gives none.                                   *)
(***************************************************************************)
\* opennem.api.time.human_to_period: the period of the catalog for a token
human_to_period(period_human) == [ period_human |-> period_human ]

\* the length of a minute interval in seconds
IntervalSeconds(interval) ==
    IF interval.interval_human = "5m" THEN 5 * SecondsPerMinute
    ELSE 30 * SecondsPerMinute

\* the length of a period of hours or days in seconds
PeriodSeconds(period) ==
    IF period.period_human = "1h" THEN SecondsPerHour
    ELSE 7 * SecondsPerDay

\* a nominal timestamp relabelled with the fixed offset, aware or not
NetworkTimeRelabels(net, dt) == replace_tzinfo(dt, get_fixed_offset(net))

\* a nominal timestamp in the time of the network: an aware one is converted
\* to the fixed offset, a naive one is given it
NetworkTime(net, dt) ==
    IF is_aware(dt)
    THEN astimezone(dt, get_fixed_offset(net))
    ELSE replace_tzinfo(dt, get_fixed_offset(net))

\* a timestamp moved by a number of seconds
Plus(dt, seconds) == [ dt EXCEPT !.wall = @ + seconds ]

\* no truncation, whatever the interval
SnappedNever(interval, dt) == dt

\* the truncation of a daily or monthly interval, none for the others
Snapped(interval, dt) ==
    IF interval.interval_human = "1d" THEN date_trunc(dt, "day")
    ELSE IF interval.interval_human = "1M" THEN date_trunc(dt, "month")
    ELSE dt

\* 23:59:59 of the last day of the month of dt
EndOfThisMonth(dt) ==
    LET y == YearOf(dt.wall)
        m == MonthOf(dt.wall)
    IN  [ dt EXCEPT !.wall = (Days(y, m, 1) + DaysInMonth(y, m)) * SecondsPerDay - 1 ]

\* 23:59:59 of the last day of the month before the month of dt
EndOfLastMonth(dt) ==
    [ dt EXCEPT !.wall = Days(YearOf(dt.wall), MonthOf(dt.wall), 1) * SecondsPerDay - 1 ]

\* the window of a forecast that looks back like any other
ForecastRangeLooksBack(ts, end) ==
    [ start |-> Snapped(ts.interval, Plus(end, 0 - PeriodSeconds(ts.period))),
      end   |-> Snapped(ts.interval, end) ]

\* the window of a forecast: the period after the nominal end
ForecastRange(ts, end) ==
    [ start |-> Snapped(ts.interval, end),
      end   |-> Snapped(ts.interval, Plus(end, PeriodSeconds(ts.period))) ]

\* the window of the period "all" that runs to the end of the current month
AllRangeThisMonth(ts, start, end) ==
    [ start |-> Snapped(ts.interval, start),
      end   |-> EndOfThisMonth(end) ]

\* the window of the period "all": from the earliest timestamp to the end of
\* the last month that is complete at the latest one
AllRange(ts, start, end) ==
    [ start |-> Snapped(ts.interval, start),
      end   |-> EndOfLastMonth(end) ]

\* the window of a year as 365 days from its first
YearRangeFixedDays(ts, end) ==
    LET first == Wall(ts.year[1], 1, 1, 0, 0, 0)
        last  == first + 365 * SecondsPerDay - 1
    IN  [ start |-> DateTime(first, end.tz),
          end   |-> IF end.wall < last THEN end ELSE DateTime(last, end.tz) ]

\* the window of a year with the end moved to the start of its day
YearRangeEndSnapped(ts, end) ==
    LET last == Wall(ts.year[1], 12, 31, 23, 59, 59)
    IN  [ start |-> DateTime(Wall(ts.year[1], 1, 1, 0, 0, 0), end.tz),
          end   |-> Snapped(ts.interval,
                            IF end.wall < last THEN end ELSE DateTime(last, end.tz)) ]

\* the window of a year that always runs to the end of the year
YearRangeWholeYear(ts, end) ==
    [ start |-> DateTime(Wall(ts.year[1], 1, 1, 0, 0, 0), end.tz),
      end   |-> DateTime(Wall(ts.year[1], 12, 31, 23, 59, 59), end.tz) ]

\* the window of an explicit year: the year, or what of it has passed at the
\* nominal end
YearRange(ts, end) ==
    LET last == Wall(ts.year[1], 12, 31, 23, 59, 59)
    IN  [ start |-> DateTime(Wall(ts.year[1], 1, 1, 0, 0, 0), end.tz),
          end   |-> IF end.wall < last THEN end ELSE DateTime(last, end.tz) ]

\* the window of a period of hours or days counted from the nominal start
PeriodRangeFromStart(ts, end) ==
    LET start == NetworkTime(ts.network, ts.start)
    IN  [ start |-> Snapped(ts.interval, start),
          end   |-> Snapped(ts.interval, Plus(start, PeriodSeconds(ts.period))) ]

\* the window of a period of hours or days: the period before the nominal end
PeriodRange(ts, end) ==
    [ start |-> Snapped(ts.interval, Plus(end, 0 - PeriodSeconds(ts.period))),
      end   |-> Snapped(ts.interval, end) ]

\* TimeSeries.get_range: the DatetimeRange of the query
get_range(ts) ==
    LET start  == NetworkTime(ts.network, ts.start)
        end    == NetworkTime(ts.network, ts.end)
        window == IF ts.forecast THEN ForecastRange(ts, end)
                  ELSE IF ts.period = human_to_period("all") THEN AllRange(ts, start, end)
                  ELSE IF ts.year # None THEN YearRange(ts, end)
                  ELSE PeriodRange(ts, end)
    IN  [ start |-> window.start, end |-> window.end,
          interval |-> ts.interval, trunc |-> ts.interval.interval_human ]

\* DatetimeRange.length: the number of intervals of the window, both ends
\* counted
length(range) ==
    IF range.trunc = "1d"
    THEN range.end.wall \div SecondsPerDay - range.start.wall \div SecondsPerDay + 1
    ELSE (range.end.wall - range.start.wall) \div IntervalSeconds(range.interval) + 1

\* the resolver is asked for the range of the TimeSeries
GetRange ==
    /\ time_series # None
    /\ date_range = None
    /\ date_range' = Some(get_range(time_series[1]))
    /\ UNCHANGED << args, pc, group_codes, stats_grouped, result, energy_station,
                    time_series, export, validation >>

NextRange == GetRange

\* the number of nominal starts and ends the TimeSeries of SpecRange are built of
MaxStarts == 4

MaxEnds == 6

\* the nominal starts and ends of tests/test_schema_timeseries.py, and ends
\* next to the end of a month and of a year
NominalStarts ==
    << DateTime(Wall(1997, 5, 5, 12, 45, 0), Some(0)),
       DateTime(Wall(1997, 4, 30, 20, 0, 0), Some(0)),
       DateTime(Wall(2021, 1, 15, 12, 0, 0), Some(0)),
       DateTime(Wall(1997, 5, 5, 12, 45, 0), Some(600)),
       DateTime(Wall(1997, 5, 5, 12, 45, 0), None) >>

NominalEnds ==
    << DateTime(Wall(2021, 1, 15, 13, 0, 0), Some(0)),
       DateTime(Wall(2021, 1, 15, 12, 45, 0), Some(0)),
       DateTime(Wall(2021, 1, 15, 12, 45, 0), Some(600)),
       DateTime(Wall(2021, 2, 15, 12, 45, 0), Some(0)),
       DateTime(Wall(2020, 2, 15, 12, 45, 0), Some(0)),
       DateTime(Wall(2019, 12, 31, 20, 0, 0), Some(0)),
       DateTime(Wall(2020, 3, 31, 18, 0, 0), Some(0)) >>

\* the kinds of window: interval, period, year and forecast flag
Windows ==
    { [ interval |-> human_to_interval(i), period |-> human_to_period(p),
        year |-> None, forecast |-> f ] :
          i \in { "5m", "30m" }, p \in { "1h", "7d" }, f \in BOOLEAN }
    \cup { [ interval |-> human_to_interval("1d"), period |-> human_to_period("1Y"),
             year |-> Some(y), forecast |-> FALSE ] : y \in 2019..2021 }
    \cup { [ interval |-> human_to_interval(i), period |-> human_to_period("all"),
             year |-> None, forecast |-> FALSE ] : i \in { "5m", "1M" } }

\* every TimeSeries of these, none of a year after its nominal end
InitRange ==
    /\ time_series \in
          { Some([ start |-> NominalStarts[s], end |-> NominalEnds[e], network |-> n,
                   interval |-> w.interval, period |-> w.period, year |-> w.year,
                   forecast |-> w.forecast ]) :
              s \in 1..MaxStarts, e \in 1..MaxEnds,
              n \in { NetworkNEM, NetworkNZ }, w \in Windows }
    /\ time_series[1].year # None =>
          time_series[1].year[1] <=
              YearOf(NetworkTime(time_series[1].network, time_series[1].end).wall)
    /\ date_range = None
    /\ export = None
    /\ validation = None
    /\ energy_station = NoHandler
    /\ stats = << >>
    /\ units = Unit(POWER_MEGA, None, POWER, FALSE)
    /\ network = None
    /\ opts = DefaultOpts
    /\ pc = "none"
    /\ group_codes = {}
    /\ stats_grouped = << >>
    /\ result = None

SpecRange == InitRange /\ [][NextRange]_vars

\* the kinds of window of a daily or monthly interval: seven days before and
\* after the nominal end, an explicit year, all
CalendarWindows ==
    { [ interval |-> human_to_interval(i), period |-> human_to_period("7d"),
        year |-> None, forecast |-> f ] : i \in { "1d", "1M" }, f \in BOOLEAN }
    \cup { [ interval |-> human_to_interval(i), period |-> human_to_period("1Y"),
             year |-> Some(y), forecast |-> FALSE ] :
               i \in { "1d", "1M" }, y \in 2019..2021 }
    \cup { [ interval |-> human_to_interval(i), period |-> human_to_period("all"),
             year |-> None, forecast |-> FALSE ] : i \in { "1d", "1M" } }

\* every TimeSeries of these, none of a year after its nominal end
InitCalendar ==
    /\ time_series \in
          { Some([ start |-> NominalStarts[s], end |-> NominalEnds[e], network |-> n,
                   interval |-> w.interval, period |-> w.period, year |-> w.year,
                   forecast |-> w.forecast ]) :
              s \in 1..MaxStarts, e \in 1..MaxEnds,
              n \in { NetworkNEM, NetworkNZ }, w \in CalendarWindows }
    /\ time_series[1].year # None =>
          time_series[1].year[1] <=
              YearOf(NetworkTime(time_series[1].network, time_series[1].end).wall)
    /\ date_range = None
    /\ export = None
    /\ validation = None
    /\ energy_station = NoHandler
    /\ stats = << >>
    /\ units = Unit(POWER_MEGA, None, POWER, FALSE)
    /\ network = None
    /\ opts = DefaultOpts
    /\ pc = "none"
    /\ group_codes = {}
    /\ stats_grouped = << >>
    /\ result = None

SpecCalendar == InitCalendar /\ [][NextRange]_vars

(***************************************************************************)
(* date_range_from_week (opennem/api/export/map.py), which get_export_map  *)
(* calls for the weekly exports.  The anchor string is written as its      *)
(* three fields; strptime reads the week field 0..53, which the weeks      *)
(* 1..54 give.                                                             *)
(***************************************************************************)
\* date.weekday() of the day of a day count: Monday is 0
weekday(days) == (days + 3) % 7

\* line 60: f"{year}-W{week - 1}-1", as the fields %Y, %W and %w
start_date_str(year, week) == [ Y |-> year, W |-> week - 1, w |-> 1 ]

\* _strptime._calc_julian_from_U_or_W for %W (weeks start on Monday): the
\* day of the year, 1 for Jan 1, of the day of the week of that number; days
\* before the first Monday are in week 0
calc_julian_from_W(year, week_of_year, day_of_week) ==
    LET first_weekday == weekday(Days(year, 1, 1))
        week_0_length == (7 - first_weekday) % 7
    IN  IF week_of_year = 0
        THEN 1 + day_of_week - first_weekday
        ELSE 1 + week_0_length + 7 * (week_of_year - 1) + day_of_week

\* line 61: datetime.strptime(start_date_str, "%Y-W%W-%w"), a naive datetime
\* at 00:00:00; a day of the year below 1 is a day of the year before
strptime(str) ==
    LET day_of_week == IF str.w = 0 THEN 6 ELSE str.w - 1
        julian      == calc_julian_from_W(str.Y, str.W, day_of_week)
    IN  DateTime((Days(str.Y, 1, 1) + julian - 1) * SecondsPerDay, None)

\* the range of a week whose anchor is built of the week itself
date_range_from_week_unshifted(year, week, net) ==
    LET start_date_dt == strptime([ Y |-> year, W |-> week, w |-> 1 ])
    IN  [ start |-> start_date_dt, end |-> Plus(start_date_dt, 7 * SecondsPerDay),
          network |-> net ]

\* lines 53-67: the ScadaDateRange of a week of a year
date_range_from_week(year, week, net) ==
    LET start_date_dt == strptime(start_date_str(year, week))
        end_date      == Plus(start_date_dt, 7 * SecondsPerDay)
    IN  [ start |-> start_date_dt, end |-> end_date, network |-> net ]

\* the date_range of the StatExport of a year and week is computed
DateRangeFromWeek ==
    /\ export # None
    /\ export[1].date_range = None
    /\ export' = Some([ export[1] EXCEPT !.date_range =
                          Some(date_range_from_week(export[1].year, export[1].week,
                                                    export[1].network)) ])
    /\ UNCHANGED << args, pc, group_codes, stats_grouped, result, energy_station,
                    time_series, date_range, validation >>

NextWeek == DateRangeFromWeek

\* the weeks and the number of years, from FirstWeekYear on, that are asked
MaxWeek == 53

MaxWeekYears == 8

\* 2017 starts on a Sunday, 2018 on a Monday; 2020 and 2024 are leap years
FirstWeekYear == 2017

\* every year and week, with the network of the export and with none
InitWeek ==
    /\ export \in { Some([ year |-> y, week |-> w, network |-> n, date_range |-> None ]) :
                      y \in FirstWeekYear..(FirstWeekYear + MaxWeekYears - 1),
                      w \in 1..MaxWeek, n \in { None, Some(NetworkNEM) } }
    /\ validation = None
    /\ time_series = None
    /\ date_range = None
    /\ energy_station = NoHandler
    /\ stats = << >>
    /\ units = Unit(POWER_MEGA, None, POWER, FALSE)
    /\ network = None
    /\ opts = DefaultOpts
    /\ pc = "none"
    /\ group_codes = {}
    /\ stats_grouped = << >>
    /\ result = None

SpecWeek == InitWeek /\ [][NextWeek]_vars

(***************************************************************************)
(* validate_data_outputs (opennem/core/validators/data.py).  A timedelta   *)
(* is its number of seconds; start_date and end_date are the start and the *)
(* last of the history of a series, so start_date <= end_date.             *)
(***************************************************************************)
\* SeriesEdgeType
posts == "posts"

rails == "rails"

\* end_date - start_date: the seconds between two datetimes of one zone
Minus(end_date, start_date) == end_date.wall - start_date.wall

\* lines 24-28: int((end_date - start_date) / interval), which drops the
\* fraction of the quotient
date_diff(interval, start_date, end_date) ==
    LET delta == Minus(end_date, start_date)
    IN  IF delta >= 0 THEN delta \div interval ELSE 0 - ((0 - delta) \div interval)

\* the validator that expects of rails what it expects of posts
validate_data_outputs_rails_as_posts(series, interval_size, start_date, end_date, edge_type) ==
    IF Len(series) # date_diff(interval_size, start_date, end_date)
    THEN "raise" ELSE "True"

\* lines 31-54: "True", or "raise" for the Exception of lines 45 and 50
validate_data_outputs(series, interval_size, start_date, end_date, edge_type) ==
    LET number_of_intervals == date_diff(interval_size, start_date, end_date)
    IN  IF edge_type = posts /\ Len(series) # number_of_intervals THEN "raise"
        ELSE IF edge_type = rails /\ Len(series) # number_of_intervals + 1 THEN "raise"
        ELSE "True"

\* lines 86-95: the history of a series is validated
ValidateDataOutputs ==
    /\ validation # None
    /\ validation[1].outcome = "none"
    /\ validation' =
          Some([ validation[1] EXCEPT !.outcome =
                   validate_data_outputs(validation[1].series,
                                         validation[1].interval_size,
                                         validation[1].start_date,
                                         validation[1].end_date,
                                         validation[1].edge_type) ])
    /\ UNCHANGED << args, pc, group_codes, stats_grouped, result, energy_station,
                    time_series, date_range, export >>

NextValidate == ValidateDataOutputs

\* the longest series that is validated
MaxSeriesLen == 3

\* the seconds from start_date to end_date: none, whole intervals, and 85
\* minutes, which no interval divides
ValidatedSpans == { 0, 1800, 3600, 5100, 86400 }

\* series of every length over 5-minute, 30-minute and daily intervals
InitValidate ==
    /\ validation \in
          { Some([ series |-> [ i \in 1..n |-> Some(5) ],
                   interval_size |-> size,
                   start_date |-> DateTime(Wall(2021, 1, 1, 0, 0, 0), Some(600)),
                   end_date |-> DateTime(Wall(2021, 1, 1, 0, 0, 0) + span, Some(600)),
                   edge_type |-> edge, outcome |-> "none" ]) :
              n \in 0..MaxSeriesLen,
              size \in { 5 * SecondsPerMinute, 30 * SecondsPerMinute, SecondsPerDay },
              span \in ValidatedSpans, edge \in { posts, rails } }
    /\ export = None
    /\ time_series = None
    /\ date_range = None
    /\ energy_station = NoHandler
    /\ stats = << >>
    /\ units = Unit(POWER_MEGA, None, POWER, FALSE)
    /\ network = None
    /\ opts = DefaultOpts
    /\ pc = "none"
    /\ group_codes = {}
    /\ stats_grouped = << >>
    /\ result = None

SpecValidate == InitValidate /\ [][NextValidate]_vars

(***************************************************************************)
(* What the claims speak of, read off the input rows and the result.       *)
(***************************************************************************)
\* the group keys of the rows
Keys(rows) == { rows[i].group_by : i \in 1..Len(rows) }

\* the distinct timestamps of a group
GroupTs(rows, g) ==
    { rows[i].interval : i \in { j \in 1..Len(rows) : rows[j].group_by = g } }

\* the value of the row of group g and timestamp t that comes last in the input
LastSeen(rows, g, t) ==
    rows[Max({ i \in 1..Len(rows) : rows[i].group_by = g /\ rows[i].interval = t })].result

\* the timestamps of a group whose value is not null
KnownTs(rows, g) == { t \in GroupTs(rows, g) : LastSeen(rows, g, t) # None }

\* the wall-clock readings of start and last, which for naive rows under a
\* minute interval are the timestamps of the first and last sample
Samples(h) == [ start |-> h.start.wall, last |-> h.last.wall, data |-> h.data ]

\* the series of the returned set (none when the call returned null)
Emitted == IF result = None THEN << >> ELSE result[1].data

\* the number of series emitted for group g (the code of a series is its group)
SeriesCount(g) == Cardinality({ k \in 1..Len(Emitted) : Emitted[k].code = g })

\* the position in the data of a series of timestamp t of its group
Rank(rows, g, start, t) ==
    Cardinality({ u \in GroupTs(rows, g) : start <= u /\ u <= t })

\* the condition of claim C5, written out
CastRequested ==
    /\ opts.cast_nulls = TRUE
    /\ \/ ~ StartsWith(units.name, TEMPERATURE)
       \/ units.cast_nulls = TRUE

(***************************************************************************)
(* C1. stats_factory returns null, not a set with an empty series list,    *)
(* whenever no group survives (every value of every group is null).        *)
(* Stated as claimed; the code returns a set whose data is empty.          *)
(***************************************************************************)
C1_NullWhenNoGroupSurvives ==
    (pc = "returned" /\ \A g \in Keys(stats) : KnownTs(stats, g) = {})
        => result = None

(***************************************************************************)
(* C2. Exactly one series is emitted for each group key that has a value   *)
(* that is not null (0 included), and none for a group whose values are    *)
(* all null.  Stated as claimed; the code drops a group whose values are   *)
(* all 0 or null.                                                          *)
(***************************************************************************)
C2_OneSeriesPerNonNullGroup ==
    pc = "returned" =>
        \A g \in Keys(stats) :
            SeriesCount(g) = IF KnownTs(stats, g) # {} THEN 1 ELSE 0

(***************************************************************************)
(* C3. The first and the last value of every emitted series are not null;  *)
(* its start and last are the timestamps of its first and last remaining   *)
(* entries (the start is the first sample that is not null, not the first  *)
(* timestamp of the rows); the nulls in between stay in place, so the data *)
(* has one entry for each timestamp of the group from start to last.       *)
(***************************************************************************)
C3_EdgesTrimmedInteriorKept ==
    pc = "returned" =>
        \A k \in 1..Len(Emitted) :
            LET g     == Emitted[k].code
                h     == Samples(Emitted[k].history)
                known == KnownTs(stats, g)
            IN  /\ h.data # << >>
                /\ h.data[1] # None
                /\ h.data[Len(h.data)] # None
                /\ h.start = Min(known)
                /\ h.last \in { Max(known), Max(GroupTs(stats, g)) }
                /\ Len(h.data) =
                       Cardinality({ t \in GroupTs(stats, g) : h.start <= t /\ t <= h.last })
                /\ \A t \in GroupTs(stats, g) :
                       (h.start <= t /\ t <= Max(known))
                           => h.data[Rank(stats, g, h.start, t)] = LastSeen(stats, g, t)

\* a series whose leading and trailing nulls are gone and whose interior null stays
C3_Witness ==
    /\ pc = "returned"
    /\ \E k \in 1..Len(Emitted) :
          LET g == Emitted[k].code
              h == Samples(Emitted[k].history)
          IN  /\ h.start > Min(GroupTs(stats, g))
              /\ h.last < Max(GroupTs(stats, g))
              /\ \E i \in 1..Len(h.data) : h.data[i] = None

(***************************************************************************)
(* C4. When trailing-null casting applies, every null of the run of nulls  *)
(* at the end of the timestamp-sorted values becomes the last value that   *)
(* is not null, and no other entry changes, so the series' last timestamp  *)
(* is the latest timestamp of the group; [null, null, 5, null, 7, null,    *)
(* null] is emitted as [5, null, 7, 7, 7].                                 *)
(***************************************************************************)
C4_Example == << None, None, Some(5), None, Some(7), None, None >>

C4_TrailingNullsForwardFilled ==
    (pc = "returned" /\ CastRequested) =>
        /\ \A k \in 1..Len(Emitted) :
              LET g     == Emitted[k].code
                  h     == Samples(Emitted[k].history)
                  known == KnownTs(stats, g)
              IN  /\ h.last = Max(GroupTs(stats, g))
                  /\ \A t \in GroupTs(stats, g) :
                        /\ t > Max(known)
                              => h.data[Rank(stats, g, h.start, t)]
                                     = LastSeen(stats, g, Max(known))
                        /\ (h.start <= t /\ t <= Max(known))
                              => h.data[Rank(stats, g, h.start, t)]
                                     = LastSeen(stats, g, t)
        /\ [ i \in 1..Len(stats) |-> stats[i].result ] = C4_Example
              => /\ Len(Emitted) = 1
                 /\ Emitted[1].history.data = << Some(5), None, Some(7), Some(7), Some(7) >>
                 /\ Emitted[1].history.start.wall = 3
                 /\ Emitted[1].history.last.wall = 7

\* the example of the claim has been processed
C4_Witness ==
    /\ pc = "returned"
    /\ CastRequested
    /\ [ i \in 1..Len(stats) |-> stats[i].result ] = C4_Example
    /\ Len(Emitted) = 1
    /\ Emitted[1].history.data = << Some(5), None, Some(7), Some(7), Some(7) >>

(***************************************************************************)
(* C5. Trailing nulls are cast exactly when cast_nulls is true and either  *)
(* the unit's name does not start with "temperature" or the unit's own     *)
(* cast_nulls flag is true; otherwise they are not filled, the edge trim   *)
(* removes them and the series ends at the last sample that is not null.   *)
(***************************************************************************)
C5_CastExactlyWhenRequested ==
    pc = "returned" =>
        \A k \in 1..Len(Emitted) :
            LET g     == Emitted[k].code
                h     == Samples(Emitted[k].history)
                known == KnownTs(stats, g)
            IN  IF CastRequested
                THEN /\ h.last = Max(GroupTs(stats, g))
                     /\ h.data[Len(h.data)] = LastSeen(stats, g, Max(known))
                ELSE /\ h.last = Max(known)
                     /\ Len(h.data) = Rank(stats, g, h.start, Max(known))

\* a temperature unit that allows casting: the trailing nulls of its series are filled
C5_Witness ==
    /\ pc = "returned"
    /\ StartsWith(units.name, TEMPERATURE)
    /\ units.cast_nulls = TRUE
    /\ opts.cast_nulls = TRUE
    /\ \E k \in 1..Len(Emitted) :
          LET g == Emitted[k].code
              h == Samples(Emitted[k].history)
          IN  /\ Max(KnownTs(stats, g)) < Max(GroupTs(stats, g))
              /\ h.last = Max(GroupTs(stats, g))

GroupsOf(series) == { g \in GroupCodes(stats) : series.code \in { None, g } }

\* the network and region components of an id, as the claims list them
NetworkCodePart == IF network # None THEN Lower(network[1].code) ELSE None

NetworkCountryPart == IF network # None THEN Lower(network[1].country) ELSE None

RegionPart ==
    IF Truthy(opts.region) /\ Lower(opts.region) # NetworkCodePart
    THEN Lower(opts.region)
    ELSE None

\* the unit has an alias or a type to put into a group-field id
UnitHasAliasOrType == Truthy(units.name_alias) \/ Truthy(units.unit_type)

\* the default id of group g, as claim C10 words it
DefaultIdAsClaimed(g) ==
    JoinNonEmpty(<< NetworkCodePart,
                    RegionPart,
                    Lower(g),
                    IF Truthy(units.name_alias) THEN units.name_alias ELSE units.name >>)

(***************************************************************************)
(* C7. The id of every series follows the precedence data_id, then the     *)
(* fuel-tech id, then the group-field id, then the default id.  Stated as  *)
(* claimed, for a unit that has an alias or a type: with fueltech_group    *)
(* and group_field both set the code emits the group-field id.             *)
(***************************************************************************)
C7_PrecedenceAsClaimed ==
    (pc = "returned" /\ UnitHasAliasOrType) =>
        \A k \in 1..Len(Emitted) :
            \E g \in GroupsOf(Emitted[k]) :
                Emitted[k].id =
                    IF Truthy(opts.data_id) THEN opts.data_id
                    ELSE IF opts.fueltech_group
                         THEN FueltechId(network, opts.region, g, units)
                    ELSE IF Truthy(opts.group_field)
                         THEN GroupFieldId(network, opts.region, g, units,
                                           opts.group_field, opts.include_group_code)
                    ELSE DefaultId(network, opts.region, g, units)

(***************************************************************************)
(* C7, amended. The precedence is data_id, then the group-field id when    *)
(* group_field is set, then the fuel-tech id when fueltech_group is set,   *)
(* then the default id, which also replaces an id that came out empty:     *)
(* with fueltech_group and group_field both set and no data_id the id is   *)
(* the group-field id.                                                     *)
(***************************************************************************)
C7_GroupFieldBeforeFueltech ==
    pc = "returned" =>
        \A k \in 1..Len(Emitted) :
            \E g \in GroupsOf(Emitted[k]) :
                LET chosen ==
                        IF Truthy(opts.data_id) THEN opts.data_id
                        ELSE IF Truthy(opts.group_field)
                             THEN GroupFieldId(network, opts.region, g, units,
                                               opts.group_field,
                                               opts.include_group_code)
                        ELSE IF opts.fueltech_group
                             THEN FueltechId(network, opts.region, g, units)
                        ELSE None
                IN  Emitted[k].id =
                        IF Truthy(chosen) THEN chosen
                        ELSE DefaultId(network, opts.region, g, units)

\* fueltech_group and group_field are both set: the id is the group-field id
C7_Witness ==
    /\ pc = "returned"
    /\ opts.fueltech_group
    /\ opts.group_field = FLOW
    /\ opts.include_group_code
    /\ ~ Truthy(opts.data_id)
    /\ ~ Truthy(opts.region)
    /\ network = Some(NetworkNEM)
    /\ units = Unit(POWER_MEGA, None, POWER, FALSE)
    /\ Len(Emitted) = 1
    /\ Emitted[1].fuel_tech = WIND
    /\ Emitted[1].id = 
          << "a", "u", ".", "n", "e", "m", ".", "p", "o", "w", "e", "r", ".", "w", ".", "f", "l", "o", "w" >>

(***************************************************************************)
(* C8. In fuel-tech mode, with a network, no region and no data_id, the id *)
(* of the series of group g is the lower-cased "<n>.fuel_tech.<g>.<u>",    *)
(* the country left out.  Stated as claimed (for calls without             *)
(* group_field and a unit that has a type): the code puts the country      *)
(* first and does not lower-case the group code.                           *)
(***************************************************************************)
C8_FueltechIdAsClaimed ==
    ( /\ pc = "returned"
      /\ Truthy(units.unit_type)
      /\ opts.fueltech_group
      /\ ~ Truthy(opts.group_field)
      /\ ~ Truthy(opts.data_id)
      /\ ~ Truthy(opts.region)
      /\ network # None )
        => \A k \in 1..Len(Emitted) :
              \E g \in GroupsOf(Emitted[k]) :
                  Emitted[k].id =
                      Lower(Join(<< network[1].code, FUEL_TECH, g, units.unit_type >>))

(***************************************************************************)
(* C9. With group_field set and no data_id, the id is the dot-join of the  *)
(* network country, the network code, the region (if it differs from the   *)
(* network code), the unit alias or else the unit type, and the group      *)
(* code.  Stated as claimed, for a unit that has an alias or a type: the   *)
(* code appends the group code only when include_group_code is set, and    *)
(* then the group field's name after it.                                   *)
(***************************************************************************)
C9_GroupFieldIdAsClaimed ==
    ( /\ pc = "returned"
      /\ UnitHasAliasOrType
      /\ Truthy(opts.group_field)
      /\ ~ Truthy(opts.data_id) )
        => \A k \in 1..Len(Emitted) :
              \E g \in GroupsOf(Emitted[k]) :
                  Emitted[k].id =
                      JoinNonEmpty(<< NetworkCountryPart,
                                      NetworkCodePart,
                                      RegionPart,
                                      IF Truthy(units.name_alias)
                                      THEN units.name_alias ELSE units.unit_type,
                                      g >>)

(***************************************************************************)
(* C9, amended. With group_field set and no data_id, the id is the         *)
(* dot-join of the lower-cased network country, the lower-cased network    *)
(* code, the lower-cased region (if it differs from the network code), the *)
(* unit alias or else the unit type and, only when include_group_code is   *)
(* set, the group code followed by the name of the group field; if all of  *)
(* these are empty, the id is the default id of C10.                       *)
(***************************************************************************)
C9_GroupCodeOnlyWhenIncluded ==
    (pc = "returned" /\ Truthy(opts.group_field) /\ ~ Truthy(opts.data_id))
        => \A k \in 1..Len(Emitted) :
              \E g \in GroupsOf(Emitted[k]) :
                  LET joined ==
                          JoinNonEmpty(<< NetworkCountryPart,
                                          NetworkCodePart,
                                          RegionPart,
                                          IF Truthy(units.name_alias)
                                          THEN units.name_alias ELSE units.unit_type,
                                          IF opts.include_group_code THEN g ELSE None,
                                          IF opts.include_group_code
                                          THEN opts.group_field ELSE None >>)
                  IN  Emitted[k].id =
                          IF Truthy(joined) THEN joined ELSE DefaultIdAsClaimed(g)

\* a group-field id with every component: the group code keeps its capitals and
\* the name of the group field follows it
C9_Witness ==
    /\ pc = "returned"
    /\ opts.group_field = FLOW
    /\ ~ Truthy(opts.data_id)
    /\ network = Some(NetworkNEM)
    /\ opts.region = NSW1
    /\ units = Unit(POWER_MEGA, None, POWER, FALSE)
    /\ Len(Emitted) = 2
    /\ opts.include_group_code
    /\ opts.include_code
    /\ \E k \in 1..2 :
          /\ Emitted[k].code = SA1
          /\ Emitted[k].id = 
                 << "a", "u", ".", "n", "e", "m", ".", "n", "1", ".", "p", "o", "w", "e", "r", ".", "S", "1", ".", "f", "l", "o", "w" >>

(***************************************************************************)
(* C10. With no data_id, fueltech_group or group_field, the id is the      *)
(* dot-join, in this order, of the lower-cased network code, the           *)
(* lower-cased region (only if it differs, case-insensitively, from the    *)
(* network code), the lower-cased group code and the unit alias or else    *)
(* the unit name; empty components are left out.                           *)
(***************************************************************************)
C10_DefaultId ==
    ( /\ pc = "returned"
      /\ ~ Truthy(opts.data_id)
      /\ ~ opts.fueltech_group
      /\ ~ Truthy(opts.group_field) )
        => \A k \in 1..Len(Emitted) :
              \E g \in GroupsOf(Emitted[k]) :
                  Emitted[k].id = DefaultIdAsClaimed(g)

\* a default id with every component, the group code in capitals in the input
C10_Witness ==
    /\ pc = "returned"
    /\ ~ Truthy(opts.data_id)
    /\ ~ opts.fueltech_group
    /\ ~ Truthy(opts.group_field)
    /\ network = Some(NetworkNEM)
    /\ opts.region = NSW1
    /\ ~ Truthy(units.name_alias)
    /\ opts.include_code
    /\ \E k \in 1..Len(Emitted) :
          /\ Emitted[k].code = SA1
          /\ Emitted[k].id = 
                 << "n", "e", "m", ".", "n", "1", ".", "s", "1", ".", "p", "o", "w", "e", "r", "_", "m", "e", "g", "a" >>

(***************************************************************************)
(* C11, C12: the time zone and the truncation of start and last.           *)
(***************************************************************************)
\* the first and the last sample of the rows as the query returned them
FirstSample == DateTime(Min({ stats[i].interval : i \in 1..Len(stats) }), opts.tzinfo)

LastSample == DateTime(Max({ stats[i].interval : i \in 1..Len(stats) }), opts.tzinfo)

\* the interval is one that lines 136-142 truncate start and last for
Snaps == opts.interval.interval_human \in { "1d", "1M" }

\* what C11 says of one sample and the timestamp emitted for it
LocalizedAsClaimed(in, out) ==
    /\ out.tz # None
    /\ network[1].offset # None => out.tz = network[1].offset
    /\ ~ Snaps => IF in.tz # None
                  THEN Instant(out) = Instant(in)
                  ELSE out.wall = in.wall

LocalizedWhenAsked(in, out) ==
    /\ out.tz # None
    /\ (opts.localize \/ in.tz = None) => out.tz = network[1].offset
    /\ (~ opts.localize /\ in.tz # None) => out.tz = in.tz
    /\ ~ Snaps => IF in.tz # None
                  THEN Instant(out) = Instant(in)
                  ELSE out.wall = in.wall

TruncatedAsClaimed(localized, out) ==
    /\ out.tz = localized.tz
    /\ opts.interval.interval_human = "1d" =>
          /\ SecondOfDay(out.wall) = 0
          /\ out.wall <= localized.wall
          /\ localized.wall < out.wall + SecondsPerDay
    /\ opts.interval.interval_human = "1M" =>
          /\ SecondOfDay(out.wall) = 0
          /\ DayOf(out.wall) = 1
          /\ MonthOf(out.wall) = MonthOf(localized.wall)
          /\ YearOf(out.wall) = YearOf(localized.wall)
    /\ ~ Snaps => out = localized

\* C12: under the interval "1d" start and last of every emitted series are at
\* 00:00:00 of their day, under "1M" at 00:00:00 of the first day of their
\* month, and under any other interval they are the sample timestamps.
C12_TruncatedByInterval ==
    result # None =>
        \A k \in 1..Len(Emitted) :
            /\ TruncatedAsClaimed(Localized(network, opts, FirstSample),
                                  Emitted[k].history.start)
            /\ TruncatedAsClaimed(Localized(network, opts, LastSample),
                                  Emitted[k].history.last)

\* a monthly series whose samples of 2021-02-14 and 2021-02-28 (UTC) fall in
\* February and March at +10:00
C12_Witness ==
    /\ result # None /\ network = Some(NetworkNEM) /\ Len(Emitted) = 1
    /\ opts.interval.interval_human = "1M" /\ opts.localize /\ opts.tzinfo = Some(0)
    /\ FirstSample.wall = Wall(2021, 2, 14, 9, 55, 0)
    /\ LastSample.wall = Wall(2021, 2, 28, 14, 5, 0)
    /\ Emitted[1].history.start = DateTime(Wall(2021, 2, 1, 0, 0, 0), Some(600))
    /\ Emitted[1].history.last = DateTime(Wall(2021, 3, 1, 0, 0, 0), Some(600))

(***************************************************************************)
(* C13: the code, network and region of the set and of its series.         *)
(***************************************************************************)
\* the code C13 gives the set: the explicit code, else the region, else the
\* code of the network
SetCodeAsClaimed ==
    IF opts.code # None THEN opts.code
    ELSE IF opts.region # None THEN opts.region
    ELSE IF network # None THEN network[1].code
    ELSE None

\* C13: the set carries the code chosen in the order code, region, network
\* code, and the network code and the region when they are supplied; every
\* series carries the lower-cased network code and the region when they are
\* supplied and its group key as code; with include_code unset neither the
\* set nor a series carries a code.
C13_Metadata ==
    result # None =>
        /\ result[1].code = IF opts.include_code THEN SetCodeAsClaimed ELSE None
        /\ result[1].network = IF network # None THEN network[1].code ELSE None
        /\ result[1].region = opts.region
        /\ \A k \in 1..Len(Emitted) :
              /\ Emitted[k].network = NetworkCodePart
              /\ Emitted[k].region = opts.region
              /\ opts.include_code => Emitted[k].code \in GroupCodes(stats)
              /\ ~ opts.include_code => Emitted[k].code = None
        /\ opts.include_code =>
              /\ \A g \in GroupCodes(stats) : SeriesCount(g) = 1
              /\ Len(Emitted) = Cardinality(GroupCodes(stats))

\* a set of two series built with a region and a network and no code: the set
\* is named after the region, the series after their groups
C13_Witness ==
    /\ result # None /\ Len(Emitted) = 2
    /\ network = Some(NetworkNEM) /\ opts.region = NSW1 /\ opts.code = None
    /\ opts.include_code
    /\ result[1].code = NSW1 /\ result[1].network = NetworkNEM.code
    /\ { Emitted[k].code : k \in 1..2 } = { WIND, SA1 }
    /\ \A k \in 1..2 : Emitted[k].network = NEM_LOWER /\ Emitted[k].region = NSW1

(***************************************************************************)
(* C14: append_set and the order of the series energy_station publishes.   *)
(***************************************************************************)
\* the handler appends the set stats_factory returned to its own
Appends ==
    /\ energy_station.pc \in { "market_value", "emissions" }
    /\ energy_station'.pc \in { "emissions", "published" }
    /\ energy_station'.pc # energy_station.pc

\* the place of a series in the published order
CallRank(series) ==
    IF series.data_type = ENERGY THEN 1
    ELSE IF series.data_type = MARKET_VALUE THEN 2
    ELSE 3

\* energy series first, then market value series, then emissions series
InCallOrder(data) ==
    \A i, j \in 1..Len(data) : i < j => CallRank(data[i]) <= CallRank(data[j])

\* C14: appending a set to the set of the handler leaves the series the
\* handler had, in their order, followed by every series of the appended set
\* in its order; the set energy_station publishes lists the energy series,
\* then the market value series, then the emissions series.
C14_AppendedInOrder ==
    [][ /\ Appends =>
              /\ result # None
              /\ energy_station'.stats[1].data =
                     energy_station.stats[1].data \o result[1].data
        /\ energy_station'.pc = "published" =>
              InCallOrder(energy_station'.stats[1].data) ]_vars

\* a published set of four series: two of energy, one of market value, one of
\* emissions
C14_Witness ==
    /\ energy_station.pc = "published"
    /\ LET data == energy_station.stats[1].data
       IN  /\ Len(data) = 4
           /\ [ i \in 1..4 |-> data[i].data_type ] =
                  << ENERGY, ENERGY, MARKET_VALUE, EMISSIONS >>

(***************************************************************************)
(* C15-C20: the window TimeSeries.get_range resolves.                      *)
(***************************************************************************)
\* the TimeSeries asked and the range returned
TS == time_series[1]

Range == date_range[1]

\* the offset of the network of the TimeSeries, in minutes
Offset == TS.network.offset[1]

\* the reading of a nominal timestamp on the clock of the network: that of
\* the same instant for an aware timestamp, its own for a naive one
LocalWall(dt) ==
    IF dt.tz = None THEN dt.wall
    ELSE dt.wall - dt.tz[1] * 60 + Offset * 60

\* a reading on the clock of the network
Local(wall) == DateTime(wall, Some(Offset))

\* the range is that of an explicit year, which ends at last
Yearly == date_range # None /\ TS.year # None

LastOfYear == Wall(TS.year[1], 12, 31, 23, 59, 59)

\* the range is that of a period of hours or days before the nominal end
Periodic ==
    /\ date_range # None /\ ~ TS.forecast
    /\ TS.period.period_human \in { "1h", "7d" }

\* the lengths C18 and C19 speak of, in seconds
PeriodAsClaimed == IF TS.period.period_human = "1h" THEN 3600 ELSE 7 * 86400

IntervalAsClaimed == IF TS.interval.interval_human = "5m" THEN 300 ELSE 1800

\* C15: the window of an explicit year Y starts at Jan 1 00:00:00 of Y and
\* ends at the earlier of Dec 31 23:59:59 of Y and now, on the clock of the
\* network; now is the nominal end of the range, which is the clock reading
\* unless the caller names an end.
C15_YearWindow ==
    Yearly =>
        /\ Range.start = Local(Wall(TS.year[1], 1, 1, 0, 0, 0))
        /\ Range.end = Local(Min({ LastOfYear, LocalWall(TS.end) }))

\* 2019 on NEM, asked in February 2021
C15_Witness ==
    /\ Yearly /\ TS.year = Some(2019) /\ TS.network = NetworkNEM
    /\ TS.end = DateTime(Wall(2021, 2, 15, 12, 45, 0), Some(0))
    /\ Range.start = DateTime(Wall(2019, 1, 1, 0, 0, 0), Some(600))
    /\ Range.end = DateTime(Wall(2019, 12, 31, 23, 59, 59), Some(600))

\* C16: the window of a year that is over at the nominal end has 366 daily
\* buckets when the year is a leap year and 365 otherwise.
C16_DailyBuckets ==
    (Yearly /\ LocalWall(TS.end) > LastOfYear /\ Range.trunc = "1d") =>
        length(Range) =
            IF TS.year[1] % 4 = 0 /\ (TS.year[1] % 100 # 0 \/ TS.year[1] % 400 = 0)
            THEN 366 ELSE 365

\* 2020 has 366 buckets
C16_Witness ==
    /\ Yearly /\ TS.year = Some(2020) /\ LocalWall(TS.end) > LastOfYear
    /\ Range.trunc = "1d" /\ length(Range) = 366

\* C17: when the nominal end lies in the explicit year, the window ends at
\* the nominal end on the clock of the network: not at Dec 31 23:59:59, and
\* at its time of day although the interval is daily.
C17_EndsAtNominalEnd ==
    (Yearly /\ YearOf(LocalWall(TS.end)) = TS.year[1]) =>
        /\ Range.end = Local(LocalWall(TS.end))
        /\ LocalWall(TS.end) # LastOfYear => Range.end.wall # LastOfYear
        /\ SecondOfDay(Range.end.wall) = SecondOfDay(LocalWall(TS.end))

\* 2021 with the nominal end 2021-01-15 12:45:00+10:00
C17_Witness ==
    /\ Yearly /\ TS.year = Some(2021) /\ TS.network = NetworkNEM
    /\ TS.interval = human_to_interval("1d")
    /\ TS.end = DateTime(Wall(2021, 1, 15, 12, 45, 0), Some(600))
    /\ Range.start = DateTime(Wall(2021, 1, 1, 0, 0, 0), Some(600))
    /\ Range.end = DateTime(Wall(2021, 1, 15, 12, 45, 0), Some(600))

Calendar == date_range # None /\ TS.interval.interval_human \in { "1d", "1M" }

\* dt is the start of its calendar day, or month, as the interval asks
AtStartOf(interval, dt) ==
    /\ SecondOfDay(dt.wall) = 0
    /\ interval.interval_human = "1M" => DayOf(dt.wall) = 1

\* the range is that of seven days before or after the nominal end
SevenDays == TS.period = human_to_period("7d")

\* C21 as stated: with a daily or monthly interval both the start and the
\* end of the window are at the start of their calendar day or month, for
\* every kind of period.
C21_BothSnapped ==
    Calendar => AtStartOf(TS.interval, Range.start) /\ AtStartOf(TS.interval, Range.end)

\* C21: with a daily or monthly interval the start of the window is at the
\* start of its calendar day or month for every kind of period, and so is the
\* end of a window of seven days; the end of the window of an explicit year
\* or of all is not moved: it is the nominal end or 23:59:59 of the last day
\* of the year, and 23:59:59 of the last day of a month.
C21_StartSnapped ==
    Calendar =>
        /\ AtStartOf(TS.interval, Range.start)
        /\ SevenDays =>
              /\ AtStartOf(TS.interval, Range.end)
              /\ LET nominal == LocalWall(TS.end) + (IF TS.forecast THEN 7 * 86400 ELSE 0)
                 IN  /\ YearOf(Range.end.wall) = YearOf(nominal)
                     /\ MonthOf(Range.end.wall) = MonthOf(nominal)
                     /\ TS.interval.interval_human = "1d" =>
                            DayOf(Range.end.wall) = DayOf(nominal)
        /\ (~ SevenDays /\ TS.year # None) =>
              Range.end.wall = Min({ LastOfYear, LocalWall(TS.end) })
        /\ (~ SevenDays /\ TS.year = None) =>
              /\ SecondOfDay(Range.end.wall) = 23 * 3600 + 59 * 60 + 59
              /\ DayOf(Range.end.wall + 1) = 1

\* seven days of daily buckets before 2021-01-15 22:45:00+10:00
C21_Witness ==
    /\ Calendar /\ SevenDays /\ ~ TS.forecast /\ TS.network = NetworkNEM
    /\ TS.interval = human_to_interval("1d")
    /\ TS.end = DateTime(Wall(2021, 1, 15, 12, 45, 0), Some(0))
    /\ Range.start = DateTime(Wall(2021, 1, 8, 0, 0, 0), Some(600))
    /\ Range.end = DateTime(Wall(2021, 1, 15, 0, 0, 0), Some(600))

\* C22: the start and the end of every window are aware and carry the fixed
\* offset of the network; the end of a window of one hour before an aware
\* nominal end is the instant of the nominal end, whatever its zone.
C22_AwareAtOffset ==
    date_range # None =>
        /\ Range.start.tz = Some(Offset) /\ Range.end.tz = Some(Offset)
        /\ is_aware(Range.start) /\ is_aware(Range.end)
        /\ (Periodic /\ TS.period.period_human = "1h" /\ is_aware(TS.end)) =>
              Instant(Range.end) = Instant(TS.end)

\* 13:00 UTC is 23:00+10:00 on NEM, and the hour before it starts at 22:00
C22_Witness ==
    /\ Periodic /\ TS.period.period_human = "1h" /\ TS.network = NetworkNEM
    /\ TS.end = DateTime(Wall(2021, 1, 15, 13, 0, 0), Some(0))
    /\ Range.start = DateTime(Wall(2021, 1, 15, 22, 0, 0), Some(600))
    /\ Range.end = DateTime(Wall(2021, 1, 15, 23, 0, 0), Some(600))


(***************************************************************************)
(* C23, C24, C30: the window of a year and week.                           *)
(***************************************************************************)
\* the StatExport asked and the ScadaDateRange date_range_from_week returned
Export == export[1]

WeekRange == Export.date_range[1]

Exported == export # None /\ Export.date_range # None

\* the day count of a naive datetime
DayCount(dt) == dt.wall \div 86400

\* the Mondays from Jan 1 of the year to the day, both counted
MondaysUpTo(year, day) ==
    { m \in Days(year, 1, 1)..day : (m + 3) % 7 = 0 }

\* C23: the window of week w of year Y starts at 00:00:00 of a Monday and
\* ends exactly 7 days later.  The Monday is that of week w - 1 in the count
\* where the days before the first Monday of Y are week 0: for w = 1 the
\* Monday of the week Jan 1 is in, for w > 1 the (w - 1)-th Monday of Y.
C23_MondayOfWeek ==
    Exported =>
        LET first == DayCount(WeekRange.start)
        IN  /\ WeekRange.start.tz = None /\ WeekRange.end.tz = None
            /\ WeekRange.start.wall = first * 86400
            /\ (first + 3) % 7 = 0
            /\ WeekRange.end.wall = WeekRange.start.wall + 7 * 86400
            /\ WeekRange.network = Export.network
            /\ IF Export.week = 1
               THEN first <= Days(Export.year, 1, 1) /\ Days(Export.year, 1, 1) < first + 7
               ELSE Cardinality(MondaysUpTo(Export.year, first)) = Export.week - 1

\* week 2 of 2021 is the week of the first Monday of 2021, January 4
C23_Witness ==
    /\ Exported /\ Export.year = 2021 /\ Export.week = 2
    /\ WeekRange.start = DateTime(Wall(2021, 1, 4, 0, 0, 0), None)
    /\ WeekRange.end = DateTime(Wall(2021, 1, 11, 0, 0, 0), None)

\* C24: no window is returned for a year and week without a network.
C24_NoWindowWithoutNetwork ==
    (export # None /\ Export.network = None) => Export.date_range = None

\* the last week of a year: the greatest whose window starts in the year
LastWeek(year) ==
    Max({ w \in 1..(MaxWeek + 1) :
            YearOf(date_range_from_week(year, w, None).start.wall) = year })

\* C30: within a year the window of week w + 1 starts where the window of
\* week w ends, and the window of week 1 of a year starts no earlier than
\* the window of the last week of the year before ends.
C30_WeeksTile ==
    Exported =>
        /\ date_range_from_week(Export.year, Export.week + 1, Export.network).start =
               WeekRange.end
        /\ (Export.week = 1 /\ Export.year > FirstWeekYear) =>
               WeekRange.start.wall >=
                   date_range_from_week(Export.year - 1, LastWeek(Export.year - 1),
                                        Export.network).end.wall


(***************************************************************************)
(* C25: NetworkSchema.get_timezone, as stats_factory calls it (line 60).   *)
(***************************************************************************)
\* C25: get_timezone returns a timezone for every network and never fails;
\* it is the fixed offset when the network defines one, an offset of 0
\* included.  (Every network has a named timezone: the field is required.)
C25_GetTimezoneNeverFails ==
    (network # None /\ pc # "call") =>
        /\ get_timezone(network[1])[1] = "tz"
        /\ network[1].offset # None => get_timezone(network[1])[2] = network[1].offset[1]
        /\ pc = "raised" => IdRaises(network, opts)


(***************************************************************************)
(* C26: the length a validated series must have.                           *)
(***************************************************************************)
Validation == validation[1]

Validated == validation # None /\ Validation.outcome # "none"

\* floor((end_date - start_date) / interval_size): the number of whole
\* intervals that fit between the two
WholeIntervals ==
    LET span == Validation.end_date.wall - Validation.start_date.wall
    IN  CHOOSE n \in 0..span :
            /\ n * Validation.interval_size <= span
            /\ span < (n + 1) * Validation.interval_size

\* C26: validate_data_outputs returns True exactly when the series has n
\* values for posts and n + 1 for rails, n being the number of whole
\* intervals between start_date and end_date; otherwise it raises, and it
\* never returns False.
C26_LengthValidated ==
    Validated =>
        LET expected == IF Validation.edge_type = "posts"
                        THEN WholeIntervals ELSE WholeIntervals + 1
        IN  /\ Validation.outcome = "True" <=> Len(Validation.series) = expected
            /\ Validation.outcome # "True" => Validation.outcome = "raise"
            /\ Validation.outcome # "False"

\* an hour of half hours on rails has three values
C26_Witness ==
    /\ Validated /\ Validation.edge_type = "rails"
    /\ Validation.interval_size = 1800
    /\ Validation.end_date.wall - Validation.start_date.wall = 3600
    /\ Len(Validation.series) = 3
    /\ Validation.outcome = "True"


(***************************************************************************)
(* C27: the order of the series of the set.                                *)
(***************************************************************************)
\* the digits and letters in the order of their code points
CodePoints ==
    << "0", "1", "2", "3", "4", "5", "6", "7", "8", "9" >> \o UPPER \o LOWER

CodePoint(c) == CHOOSE i \in 1..Len(CodePoints) : CodePoints[i] = c

\* a < b for two str, as Python compares them
RECURSIVE StrLess(_, _)
StrLess(a, b) ==
    IF b = << >> THEN FALSE
    ELSE IF a = << >> THEN TRUE
    ELSE IF Head(a) = Head(b) THEN StrLess(Tail(a), Tail(b))
    ELSE CodePoint(Head(a)) < CodePoint(Head(b))

\* C27: the series of the returned set are in ascending order of their group
\* keys (the code of a series is its group key), whatever the run.
C27_AscendingGroupOrder ==
    pc = "returned" =>
        \A k \in 1..(Len(Emitted) - 1) : StrLess(Emitted[k].code, Emitted[k + 1].code)


(***************************************************************************)
(* C28: the ids of the series of one set.                                  *)
(***************************************************************************)
\* no two series of the returned set have the same id
DistinctIds ==
    \A j, k \in 1..Len(Emitted) : j # k => Emitted[j].id # Emitted[k].id

\* the group-field id is built without the group code, and is not empty
GroupCodeLeftOut ==
    /\ Truthy(opts.group_field) /\ ~ opts.include_group_code
    /\ network # None \/ UnitHasAliasOrType

\* the id is the default id, which lower-cases the group code
DefaultIdUsed ==
    IF Truthy(opts.group_field)
    THEN ~ opts.include_group_code /\ ~ GroupCodeLeftOut
    ELSE ~ opts.fueltech_group

\* no two group codes differ in the case of their letters only
CaseDistinct ==
    \A g, h \in GroupCodes(stats) : g # h => Lower(g) # Lower(h)

\* C28 as stated: without a data_id the ids of the series of a set are
\* pairwise distinct, whatever fueltech_group, group_field and
\* include_group_code are.
C28_DistinctIds ==
    (pc = "returned" /\ ~ Truthy(opts.data_id)) => DistinctIds

\* C28: without a data_id the ids of the series of a set are pairwise
\* distinct, except that with group_field set and include_group_code off
\* the id leaves the group code out and, unless it is empty, is the same for
\* every series; and except for group codes that differ in the case of
\* their letters only, which have the same default id.
C28_DistinctUnlessGroupCodeLeftOut ==
    (pc = "returned" /\ ~ Truthy(opts.data_id)) =>
        IF GroupCodeLeftOut
        THEN \A j, k \in 1..Len(Emitted) : Emitted[j].id = Emitted[k].id
        ELSE IF CaseDistinct \/ ~ DefaultIdUsed
        THEN DistinctIds
        ELSE Len(Emitted) = Cardinality(GroupCodes(stats)) => ~ DistinctIds

\* two groups as power_flows_network_week asks them: group_field with
\* include_group_code
C28_Witness ==
    /\ pc = "returned" /\ ~ Truthy(opts.data_id)
    /\ opts.group_field = FLOW /\ opts.include_group_code
    /\ network = Some(NetworkNEM)
    /\ Len(Emitted) = 2
    /\ Emitted[1].id # Emitted[2].id


(***************************************************************************)
(* C29: what becomes of the rows.                                          *)
(***************************************************************************)
\* the value of row i is in the data of series k, at the place of its
\* timestamp, if that lies between the start and the last of the series
InSeries(i, k) ==
    LET h == Samples(Emitted[k].history)
        t == stats[i].interval
    IN  (h.start <= t /\ t <= h.last) =>
            h.data[Rank(stats, stats[i].group_by, h.start, t)] = stats[i].result

\* C29: every row with a non-null value has a series of its group key in
\* the returned set, also when the key is missing or empty, and its value is
\* in the data of that series.
C29_EveryRowContributes ==
    pc = "returned" =>
        \A i \in 1..Len(stats) :
            stats[i].result # None =>
                \E k \in 1..Len(Emitted) :
                    Emitted[k].code = stats[i].group_by /\ InSeries(i, k)

====
